---- MODULE Spec2Model ----
(***************************************************************************)
(* Model of the Webscrapper Buddy pipeline: split_dom_content (scrape.py), *)
(* parse_with_llm (parse_llm.py), generic_fetch (advance_scrape.py) and    *)
(* try_to_dataframe (main.py).                                             *)
(*                                                                         *)
(* Python strings are sequences of one-character strings; a string literal *)
(* of the source is spelled out character by character.  Python values     *)
(* that may or may not be strings (JSON fields) are records tagged with    *)
(* their Python type.                                                      *)
(***************************************************************************)
EXTENDS Integers, Sequences, FiniteSets, TLC

VARIABLES
    \* split_dom_content(dom_content, max_length)
    dom_content, max_length, split_pc, split_result,
    \* parse_with_llm(provider, api_key, dom_chunks, parse_description)
    provider, dom_chunks, pc, i, final_output, result,
    \* observation of parse_with_llm: the POSTs sent (chunk index of each),
    \* the response given to each visited chunk, and the chunk each entry
    \* of final_output came from
    requests, responses, origin,
    \* generic_fetch(url, provider, api_key, **options) and the GETs it sent
    url, fetch_provider, api_key, render_js, fetch_pc, fetch_result,
    http_requests,
    \* try_to_dataframe(parsed_text), with what pd.read_html did and the
    \* separators for which pd.read_csv raised
    parsed_text, table_pc, table_result, read_html_outcome, read_csv_raises,
    \* one browser session of main.py: st.session_state, the page shown,
    \* whether the last script run drew the parse section, and the chunks the
    \* last "Parse" click handed to parse_with_llm
    session_state, page, parse_rendered, parse_input,
    \* observation of the session: the text returned by the most recent
    \* scrape that did not fail, and what the last script run was
    last_ok_html, last_run

splitVars == <<dom_content, max_length, split_pc, split_result>>
parseVars == <<provider, dom_chunks, pc, i, final_output, result,
               requests, responses, origin>>
fetchVars == <<url, fetch_provider, api_key, render_js, fetch_pc,
               fetch_result, http_requests>>
tableVars == <<parsed_text, table_pc, table_result, read_html_outcome,
               read_csv_raises>>
sessionVars == <<session_state, page, parse_rendered, parse_input,
                 last_ok_html, last_run>>
vars == <<splitVars, parseVars, fetchVars, tableVars, sessionVars>>

-----------------------------------------------------------------------------
(* Bounds of the model *)

MaxDocLen == 5
MaxLength == 3
MaxChunks == 3
MaxLines == 3

-----------------------------------------------------------------------------
(* Python built-ins used by the source *)

Min(a, b) == IF a < b THEN a ELSE b

\* s[a:b] for 0 <= a <= b
Slice(s, a, b) == SubSeq(s, a + 1, Min(b, Len(s)))

\* range(0, stop, step) for step > 0, as the sequence of its values
RECURSIVE RangeFrom(_, _, _)
RangeFrom(start, stop, step) ==
    IF start >= stop THEN <<>>
    ELSE <<start>> \o RangeFrom(start + step, stop, step)

RangeDropPartial(stop, step) == RangeFrom(0, stop - step + 1, step)

PyRange(stop, step) == RangeFrom(0, stop, step)

\* the characters str.strip() and str.split() treat as whitespace
Whitespace == {" ", "\t", "\n"}

RECURSIVE LStrip(_)
LStrip(s) ==
    IF s # <<>> /\ Head(s) \in Whitespace THEN LStrip(Tail(s)) ELSE s

RECURSIVE RStrip(_)
RStrip(s) ==
    IF s # <<>> /\ s[Len(s)] \in Whitespace
    THEN RStrip(SubSeq(s, 1, Len(s) - 1)) ELSE s

\* str.strip()
Strip(s) == RStrip(LStrip(s))

\* sub in s, for strings
Contains(sub, s) ==
    \E k \in 0..(Len(s) - Len(sub)) : SubSeq(s, k + 1, k + Len(sub)) = sub

\* sep.join(strs) for a list of strings
RECURSIVE JoinStr(_, _)
JoinStr(sep, strs) ==
    IF strs = <<>> THEN <<>>
    ELSE IF Len(strs) = 1 THEN strs[1]
    ELSE strs[1] \o sep \o JoinStr(sep, Tail(strs))

Digit(d) == <<"0", "1", "2", "3", "4", "5", "6", "7", "8", "9">>[d + 1]

\* str(n) for n >= 0
RECURSIVE IntToStr(_)
IntToStr(n) ==
    IF n < 10 THEN <<Digit(n)>>
    ELSE IntToStr(n \div 10) \o <<Digit(n % 10)>>

\* all sequences over S of length at most n
SeqsUpTo(S, n) == UNION {[1..k -> S] : k \in 0..n}

-----------------------------------------------------------------------------
(* scrape.py: split_dom_content *)

split_dom_content(doc, maxlen) ==
    LET starts == PyRange(Len(doc), maxlen)
    IN  [k \in 1..Len(starts) |-> Slice(doc, starts[k], starts[k] + maxlen)]

DocChars == {"a", " "}

SplitIdle ==
    /\ dom_content = <<>> /\ max_length = 1
    /\ split_pc = "idle" /\ split_result = <<>>

SplitInputs ==
    /\ dom_content \in SeqsUpTo(DocChars, MaxDocLen)
    /\ max_length \in 1..MaxLength
    /\ split_pc = "call"
    /\ split_result = <<>>

SplitCall ==
    /\ split_pc = "call"
    /\ split_result' = split_dom_content(dom_content, max_length)
    /\ split_pc' = "done"
    /\ UNCHANGED <<dom_content, max_length, parseVars, fetchVars, tableVars, sessionVars>>

-----------------------------------------------------------------------------
(* parse_llm.py: parse_with_llm *)

\* Python values that a decoded JSON field can hold
PyStr(s) == [t |-> "str", v |-> s]
PyNone == [t |-> "NoneType", v |-> <<>>]
PyList(xs) == [t |-> "list", v |-> xs]

\* outcome of a call: a returned value, a raised exception, or none yet
Return(s) == [kind |-> "return", value |-> s]
Raise(e) == [kind |-> "raise", value |-> e]
NoResult == [kind |-> "none", value |-> <<>>]

NO_DATA == <<"N","O","_","D","A","T","A">>

EmptyContentMsg == <<"E","r","r","o","r",":"," ","T","h","e"," ","t","e","x","t"," ","c","o","n","t","e","n","t"," ","t","o"," ","p","a","r","s","e"," ","i","s"," ","e","m","p","t","y","."," ","P","l","e","a","s","e"," ","c","h","e","c","k"," ","y","o","u","r"," ","s","c","r","a","p","i","n","g"," ","s","t","e","p",".">>

InvalidProviderMsg == <<"E","r","r","o","r",":"," ","I","n","v","a","l","i","d"," ","p","r","o","v","i","d","e","r"," ","s","e","l","e","c","t","e","d",".">>

NoMatchMsg == <<"N","o"," ","m","a","t","c","h","i","n","g"," ","d","a","t","a"," ","f","o","u","n","d"," ","i","n"," ","t","h","e"," ","c","o","n","t","e","n","t",".">>

GeminiNoCandidatesMsg == <<"E","r","r","o","r",":"," ","G","e","m","i","n","i"," ","r","e","t","u","r","n","e","d"," ","n","o"," ","c","a","n","d","i","d","a","t","e","s"," ","(","S","a","f","e","t","y"," ","f","i","l","t","e","r","?",")">>

\* f"Error (Chunk {i}): API returned {resp.status_code} - {resp.text}"
ChunkErrorMsg(idx, status, text) ==
    <<"E","r","r","o","r"," ","(","C","h","u","n","k"," ">> \o IntToStr(idx)
    \o <<")",":"," ","A","P","I"," ","r","e","t","u","r","n","e","d"," ">>
    \o IntToStr(status) \o <<" ","-"," ">> \o text

\* f"Critical Error: {str(e)}"
CriticalErrorMsg(e) ==
    <<"C","r","i","t","i","c","a","l"," ","E","r","r","o","r",":"," ">> \o e

\* str(e) of the exceptions the loop body can meet
ConnectionErrorText == <<"C","o","n","n","e","c","t","i","o","n"," ","r","e","f","u","s","e","d">>
JSONDecodeErrorText == <<"E","x","p","e","c","t","i","n","g"," ","v","a","l","u","e">>
KeyErrorText == <<"'","c","h","o","i","c","e","s","'">>
NotIterableText == <<"a","r","g","u","m","e","n","t"," ","o","f"," ","t","y","p","e"," ","'","N","o","n","e","T","y","p","e","'"," ","i","s"," ","n","o","t"," ","i","t","e","r","a","b","l","e">>

ValidProviders == {"gemini", "groq", "openai"}
Providers == ValidProviders \cup {"claude"}

\* the chunk texts the model passes in: whitespace-only, empty, and data
ChunkTexts == {<<" ">>, <<>>, <<"a", "b">>}

\* what the provider can put in the text field of a 200 envelope
ModelTexts ==
    { PyStr(<<>>), PyStr(NO_DATA), PyStr(<<"x"," ">> \o NO_DATA),
      PyStr(<<"f","o","o">>), PyNone, PyList(<<<<"f","o","o">>>>) }

\* what requests.post can do for one chunk: raise, answer non-200, answer
\* 200 with a body that is not JSON, with JSON lacking the candidate /
\* choice list, or with the provider's envelope around a text field
Responses ==
    { [kind |-> "exception", status |-> 0, text |-> ConnectionErrorText,
       json |-> FALSE, listed |-> FALSE, value |-> PyNone] }
    \cup
    { [kind |-> "http", status |-> 500, text |-> <<"b","a","d">>,
       json |-> FALSE, listed |-> FALSE, value |-> PyNone] }
    \cup
    { [kind |-> "http", status |-> 200, text |-> <<>>,
       json |-> j, listed |-> FALSE, value |-> PyNone] : j \in BOOLEAN }
    \cup
    { [kind |-> "http", status |-> 200, text |-> <<>>,
       json |-> TRUE, listed |-> TRUE, value |-> v] : v \in ModelTexts }

Skipped == [kind |-> "skipped", status |-> 0, text |-> <<>>,
            json |-> FALSE, listed |-> FALSE, value |-> PyNone]

\* not chunk.strip()
IsBlank(chunk) == Strip(chunk) = <<>>

EmptyInputListOnly(chunks) == chunks = <<>>

\* not dom_chunks or all(not chunk.strip() for chunk in dom_chunks)
EmptyInput(chunks) ==
    chunks = <<>> \/ \A k \in 1..Len(chunks) : IsBlank(chunks[k])

SentinelEquals(v) ==
    IF v.t = "str" THEN v.v = NO_DATA ELSE \E k \in 1..Len(v.v) : v.v[k] = NO_DATA

\* "NO_DATA" in result_text, for a str or a list (None raises TypeError)
SentinelIn(v) ==
    IF v.t = "str" THEN Contains(NO_DATA, v.v)
    ELSE \E k \in 1..Len(v.v) : v.v[k] = NO_DATA

\* lines 63-73: the text decoded from a 200 response, or the exception
\* raised while decoding it
Decode(p, resp) ==
    IF ~resp.json THEN [raised |-> TRUE, msg |-> JSONDecodeErrorText, value |-> PyNone]
    ELSE IF p = "gemini"
    THEN IF resp.listed
         THEN [raised |-> FALSE, msg |-> <<>>, value |-> resp.value]
         ELSE [raised |-> FALSE, msg |-> <<>>, value |-> PyStr(GeminiNoCandidatesMsg)]
    ELSE IF resp.listed
         THEN [raised |-> FALSE, msg |-> <<>>, value |-> resp.value]
         ELSE [raised |-> TRUE, msg |-> KeyErrorText, value |-> PyNone]

\* lines 52-80: final_output after the try block has handled one response
TryBlock(p, idx, resp, fo) ==
    IF resp.kind = "exception"
    THEN Append(fo, PyStr(CriticalErrorMsg(resp.text)))
    ELSE IF resp.status # 200
    THEN Append(fo, PyStr(ChunkErrorMsg(idx, resp.status, resp.text)))
    ELSE LET d == Decode(p, resp)
         IN  IF d.raised THEN Append(fo, PyStr(CriticalErrorMsg(d.msg)))
             ELSE IF d.value.t = "NoneType"
             THEN Append(fo, PyStr(CriticalErrorMsg(NotIterableText)))
             ELSE IF ~SentinelIn(d.value) THEN Append(fo, d.value)
             ELSE fo

JoinSpace(fo) ==
    IF \E k \in 1..Len(fo) : fo[k].t # "str" THEN Raise("TypeError")
    ELSE Return(JoinStr(<<" ">>, [k \in 1..Len(fo) |-> fo[k].v]))

\* "\n".join(final_output): TypeError when an item is not a str
JoinLines(fo) ==
    IF \E k \in 1..Len(fo) : fo[k].t # "str" THEN Raise("TypeError")
    ELSE Return(JoinStr(<<"\n">>, [k \in 1..Len(fo) |-> fo[k].v]))

ParseIdle ==
    /\ provider = "gemini" /\ dom_chunks = <<>> /\ pc = "idle" /\ i = 0
    /\ final_output = <<>> /\ result = NoResult
    /\ requests = <<>> /\ responses = <<>> /\ origin = <<>>

\* api_key and parse_description only reach the request's URL, headers and
\* prompt; no branch of parse_with_llm reads them, so they are not state.
ParseInputs ==
    /\ provider \in Providers
    /\ dom_chunks \in SeqsUpTo(ChunkTexts, MaxChunks)
    /\ pc = "start" /\ i = 0
    /\ final_output = <<>> /\ result = NoResult
    /\ requests = <<>> /\ responses = <<>> /\ origin = <<>>

\* lines 7-27: the empty-content guard, then the provider configuration
ParseStart ==
    /\ pc = "start"
    /\ IF EmptyInput(dom_chunks)
       THEN result' = Return(EmptyContentMsg) /\ pc' = "done"
       ELSE IF provider \notin ValidProviders
       THEN result' = Return(InvalidProviderMsg) /\ pc' = "done"
       ELSE result' = result /\ pc' = "loop"
    /\ UNCHANGED <<provider, dom_chunks, i, final_output, requests,
                   responses, origin, splitVars, fetchVars, tableVars, sessionVars>>

SkipChunkSends ==
    /\ pc = "loop" /\ i < Len(dom_chunks)
    /\ IsBlank(dom_chunks[i + 1])
    /\ i' = i + 1
    /\ requests' = Append(requests, i)
    /\ responses' = Append(responses, Skipped)
    /\ UNCHANGED <<provider, dom_chunks, pc, final_output, result,
                   origin, splitVars, fetchVars, tableVars, sessionVars>>

\* lines 30-32: a whitespace-only chunk is passed over
SkipChunk ==
    /\ pc = "loop" /\ i < Len(dom_chunks)
    /\ IsBlank(dom_chunks[i + 1])
    /\ i' = i + 1
    /\ responses' = Append(responses, Skipped)
    /\ UNCHANGED <<provider, dom_chunks, pc, final_output, result,
                   requests, origin, splitVars, fetchVars, tableVars, sessionVars>>

\* lines 30-80: one POST for chunk i and the handling of its outcome
ProcessChunk ==
    /\ pc = "loop" /\ i < Len(dom_chunks)
    /\ ~IsBlank(dom_chunks[i + 1])
    /\ \E resp \in Responses :
         /\ requests' = Append(requests, i)
         /\ responses' = Append(responses, resp)
         /\ final_output' = TryBlock(provider, i, resp, final_output)
         /\ origin' = IF Len(final_output') > Len(final_output)
                      THEN Append(origin, i) ELSE origin
    /\ i' = i + 1
    /\ UNCHANGED <<provider, dom_chunks, pc, result, splitVars, fetchVars,
                   tableVars, sessionVars>>

\* lines 82-86: the loop is exhausted and the result is built
Finish ==
    /\ pc = "loop" /\ i = Len(dom_chunks)
    /\ result' = IF final_output = <<>> THEN Return(NoMatchMsg)
                 ELSE JoinLines(final_output)
    /\ pc' = "done"
    /\ UNCHANGED <<provider, dom_chunks, i, final_output, requests,
                   responses, origin, splitVars, fetchVars, tableVars, sessionVars>>

-----------------------------------------------------------------------------
(* advance_scrape.py: generic_fetch *)

UpperCase == <<"A","B","C","D","E","F","G","H","I","J","K","L","M","N","O","P","Q","R","S","T","U","V","W","X","Y","Z">>
LowerCase == <<"a","b","c","d","e","f","g","h","i","j","k","l","m","n","o","p","q","r","s","t","u","v","w","x","y","z">>

LowerChar(c) ==
    IF \E n \in 1..26 : UpperCase[n] = c
    THEN LowerCase[CHOOSE n \in 1..26 : UpperCase[n] = c]
    ELSE c

\* str.lower()
Lower(s) == [n \in 1..Len(s) |-> LowerChar(s[n])]

Id_none == <<"n","o","n","e">>
Id_basic == <<"b","a","s","i","c">>
Id_scraperapi == <<"s","c","r","a","p","e","r","a","p","i">>
Id_scrapingbee == <<"s","c","r","a","p","i","n","g","b","e","e">>
Id_scrapingdog == <<"s","c","r","a","p","i","n","g","d","o","g">>
Id_zenrows == <<"z","e","n","r","o","w","s">>

Html == <<"<","h","t","m","l",">">>

\* the provider arguments tried: absent, the two "no provider" words, the
\* four supported ids in several spellings, an unknown id, the empty string
FetchProviders ==
    { PyNone, PyStr(Id_none), PyStr(<<"B","a","s","i","c">>),
      PyStr(Id_scraperapi),
      PyStr(<<"S","c","r","a","p","i","n","g","B","e","e">>),
      PyStr(Id_scrapingdog), PyStr(Id_zenrows),
      PyStr(<<"z","e","n","r","o","w">>), PyStr(<<>>) }

ApiKeys == { PyNone, PyStr(<<>>), PyStr(<<" ">>), PyStr(<<"k">>) }

Urls == {"https://a.example", "https://b.example"}

\* options.get("render_js", False) sees no entry, True or False
RenderJsOptions == {"absent", "true", "false"}

\* what requests.get followed by raise_for_status can do
GetOutcomes == {"ok", "RequestException"}

\* lines 11-16: one GET; RequestException becomes AdvancedScraperError
_get(endpoint, params, outcome) ==
    [ sent |-> <<[endpoint |-> endpoint, params |-> params]>>,
      result |-> IF outcome = "ok" THEN Return(Html)
                 ELSE Raise("AdvancedScraperError") ]

fetch_with_scraperapi(u, key, outcome) ==
    _get("https://api.scraperapi.com",
         {<<"api_key", key>>, <<"url", u>>, <<"render", "false">>}, outcome)

fetch_with_scrapingbee(u, key, js, outcome) ==
    _get("https://app.scrapingbee.com/api/v1",
         {<<"api_key", key>>, <<"url", u>>}
             \cup (IF js = "true" THEN {<<"render_js", "true">>} ELSE {}),
         outcome)

fetch_with_scrapingdog(u, key, outcome) ==
    _get("https://api.scrapingdog.com/scrape",
         {<<"api_key", key>>, <<"url", u>>}, outcome)

fetch_with_zenrows(u, key, outcome) ==
    _get("https://api.zenrows.com/v1/",
         {<<"apikey", key>>, <<"url", u>>}, outcome)

NoGet(e) == [sent |-> <<>>, result |-> Raise(e)]

NotKeyNoneOnly(key) == key.t = "NoneType"

\* not api_key
NotKey(key) == key.t = "NoneType" \/ key.v = <<>>

\* lines 59-82
generic_fetch(u, prov, key, js, outcome) ==
    IF prov.t = "NoneType" \/ Lower(prov.v) \in {Id_none, Id_basic}
    THEN NoGet("AdvancedScraperError")
    ELSE LET p == Lower(prov.v)
         IN  IF NotKey(key) THEN NoGet("AdvancedScraperError")
             ELSE IF p = Id_scraperapi
             THEN fetch_with_scraperapi(u, key.v, outcome)
             ELSE IF p = Id_scrapingbee
             THEN fetch_with_scrapingbee(u, key.v, js, outcome)
             ELSE IF p = Id_scrapingdog
             THEN fetch_with_scrapingdog(u, key.v, outcome)
             ELSE IF p = Id_zenrows
             THEN fetch_with_zenrows(u, key.v, outcome)
             ELSE NoGet("AdvancedScraperError")

FetchIdle ==
    /\ url = "" /\ fetch_provider = PyNone /\ api_key = PyNone
    /\ render_js = "absent" /\ fetch_pc = "idle"
    /\ fetch_result = NoResult /\ http_requests = <<>>

FetchInputs ==
    /\ url \in Urls
    /\ fetch_provider \in FetchProviders
    /\ api_key \in ApiKeys
    /\ render_js \in RenderJsOptions
    /\ fetch_pc = "call"
    /\ fetch_result = NoResult /\ http_requests = <<>>

GenericFetch ==
    /\ fetch_pc = "call"
    /\ \E outcome \in GetOutcomes :
         LET r == generic_fetch(url, fetch_provider, api_key, render_js, outcome)
         IN  /\ http_requests' = r.sent
             /\ fetch_result' = r.result
    /\ fetch_pc' = "done"
    /\ UNCHANGED <<url, fetch_provider, api_key, render_js, splitVars,
                   parseVars, tableVars, sessionVars>>

-----------------------------------------------------------------------------
(* main.py: try_to_dataframe *)

\* str.splitlines(), for "\n" line ends
RECURSIVE SplitLinesFrom(_, _)
SplitLinesFrom(s, cur) ==
    IF s = <<>> THEN (IF cur = <<>> THEN <<>> ELSE <<cur>>)
    ELSE IF Head(s) = "\n" THEN <<cur>> \o SplitLinesFrom(Tail(s), <<>>)
    ELSE SplitLinesFrom(Tail(s), Append(cur, Head(s)))

SplitLines(s) == SplitLinesFrom(s, <<>>)

\* str.split(): the maximal runs of non-whitespace characters
RECURSIVE SplitWsFrom(_, _)
SplitWsFrom(s, cur) ==
    IF s = <<>> THEN (IF cur = <<>> THEN <<>> ELSE <<cur>>)
    ELSE IF Head(s) \in Whitespace
    THEN (IF cur = <<>> THEN <<>> ELSE <<cur>>) \o SplitWsFrom(Tail(s), <<>>)
    ELSE SplitWsFrom(Tail(s), Append(cur, Head(s)))

SplitWs(s) == SplitWsFrom(s, <<>>)

\* [l.strip() for l in parsed_text.splitlines() if l.strip()]
StrippedLines(text) ==
    LET raw == SplitLines(text)
        stripped == [n \in 1..Len(raw) |-> Strip(raw[n])]
    IN  SelectSeq(stripped, LAMBDA l : l # <<>>)

\* the separators of line 40, in the order they are tried
Separators == <<"\t", "|", ",", ";">>

TableTag == <<"<","t","a","b","l","e",">">>

TextColumn == <<"t","e","x","t">>

\* a DataFrame: built by the code (columns and rows known) or by pandas
\* from markup or delimited text (contents left open)
DataFrame(cols, rows) ==
    [source |-> "code", sep |-> "", columns |-> cols, rows |-> rows]
ParsedFrame(source, sep) ==
    [source |-> source, sep |-> sep, columns |-> <<>>, rows |-> <<>>]

Fallthrough == [kind |-> "fallthrough", value |-> <<>>]

\* pd.read_html(parsed_text): raises unless the text holds table markup;
\* with markup it can raise, return no table or return tables
ReadHtml(text, html) ==
    IF ~Contains(TableTag, text) \/ html = "raise" THEN Raise("ValueError")
    ELSE IF html = "empty" THEN Return(<<>>)
    ELSE Return(<<ParsedFrame("read_html", "")>>)

TryReadHtmlNoCatch(text, html) ==
    LET dfs == ReadHtml(text, html)
    IN  IF dfs.kind = "raise" THEN dfs
        ELSE IF dfs.value # <<>> THEN Return(dfs.value[1])
        ELSE Fallthrough

\* lines 26-31
TryReadHtml(text, html) ==
    LET dfs == ReadHtml(text, html)
    IN  IF dfs.kind = "raise" THEN Fallthrough
        ELSE IF dfs.value # <<>> THEN Return(dfs.value[1])
        ELSE Fallthrough

\* pd.read_csv(io.StringIO("\n".join(lines)), sep=sep)
ReadCsv(lines, sep, raises) ==
    IF sep \in raises THEN Raise("ParserError")
    ELSE Return(ParsedFrame("read_csv", sep))

TryReadCsvNoCatch(lines, sep, raises) == ReadCsv(lines, sep, raises)

\* lines 42-46
TryReadCsv(lines, sep, raises) ==
    LET df == ReadCsv(lines, sep, raises)
    IN  IF df.kind = "raise" THEN Fallthrough ELSE df

\* lines 40-46: the loop over the separators, from position n on
RECURSIVE SeparatorLoop(_, _, _)
SeparatorLoop(lines, n, raises) ==
    IF n > Len(Separators) THEN Fallthrough
    ELSE IF Contains(<<Separators[n]>>, lines[1])
    THEN LET r == TryReadCsv(lines, Separators[n], raises)
         IN  IF r.kind = "fallthrough"
             THEN SeparatorLoop(lines, n + 1, raises) ELSE r
    ELSE SeparatorLoop(lines, n + 1, raises)

WhitespaceOrFallbackAnyWidth(lines) ==
    LET parts == [n \in 1..Len(lines) |-> SplitWs(lines[n])]
        lens == {Len(parts[n]) : n \in 1..Len(parts)}
    IN  IF Len(parts) >= 2 /\ Cardinality(lens) = 1
        THEN Return(DataFrame(parts[1], Tail(parts)))
        ELSE Return(DataFrame(<<TextColumn>>,
                              [n \in 1..Len(lines) |-> <<lines[n]>>]))

\* lines 48-57
WhitespaceOrFallback(lines) ==
    LET parts == [n \in 1..Len(lines) |-> SplitWs(lines[n])]
        lens == {Len(parts[n]) : n \in 1..Len(parts)}
    IN  IF Len(parts) >= 2 /\ Cardinality(lens) = 1 /\ Len(parts[1]) > 1
        THEN Return(DataFrame(parts[1], Tail(parts)))
        ELSE Return(DataFrame(<<TextColumn>>,
                              [n \in 1..Len(lines) |-> <<lines[n]>>]))

\* lines 18-57
try_to_dataframe(text, html, raises) ==
    LET h == TryReadHtml(text, html)
        lines == StrippedLines(text)
    IN  IF h.kind # "fallthrough" THEN h
        ELSE IF lines = <<>> THEN Return(DataFrame(<<>>, <<>>))
        ELSE LET c == SeparatorLoop(lines, 1, raises)
             IN  IF c.kind # "fallthrough" THEN c
                 ELSE WhitespaceOrFallback(lines)

\* the lines the parsed texts are made of
LineTexts ==
    { <<>>, <<" ","a">>, <<"a"," ","b">>, <<"c"," "," ","d">>,
      <<"a",",","b">>, <<"a",";","b","|","c">>, <<"a","\t","b">>, TableTag }

ReadHtmlOutcomes == {"raise", "empty", "tables"}

TableIdle ==
    /\ parsed_text = <<>> /\ table_pc = "idle" /\ table_result = NoResult
    /\ read_html_outcome = "raise" /\ read_csv_raises = {}

TableInputs ==
    /\ parsed_text \in {JoinStr(<<"\n">>, ls) : ls \in SeqsUpTo(LineTexts, MaxLines)}
    /\ table_pc = "call" /\ table_result = NoResult
    /\ read_html_outcome = "raise" /\ read_csv_raises = {}

TryToDataframe ==
    /\ table_pc = "call"
    /\ \E html \in ReadHtmlOutcomes :
       \E raises \in SUBSET {Separators[n] : n \in 1..Len(Separators)} :
         /\ read_html_outcome' = html
         /\ read_csv_raises' = raises
         /\ table_result' = try_to_dataframe(parsed_text, html, raises)
    /\ table_pc' = "done"
    /\ UNCHANGED <<parsed_text, splitVars, parseVars, fetchVars, sessionVars>>

-----------------------------------------------------------------------------
(* main.py: render_basic_scraper and render_advanced_scraper in a session *)

\* split_dom_content's default max_length
DefaultMaxLength == 6000

ErrorPrefix == <<"E","R","R","O","R",":">>

\* scrape.py lines 24-25: f"ERROR: Failed to scrape the website.\nDetails: {e}"
ScrapeErrorMsg(e) == <<"E","R","R","O","R",":"," ","F","a","i","l","e","d"," ","t","o"," ","s","c","r","a","p","e"," ","t","h","e"," ","w","e","b","s","i","t","e",".","\n","D","e","t","a","i","l","s",":"," ">> \o e

\* str.startswith
StartsWith(prefix, s) ==
    Len(s) >= Len(prefix) /\ SubSeq(s, 1, Len(prefix)) = prefix

BodyOpen == <<"<","b","o","d","y",">">>
BodyClose == <<"<","/","b","o","d","y",">">>

\* the documents a server can answer with: a body with two text lines, a
\* body with one, markup without a body element, and plain text that
\* begins like a scrape error
PageTwoLines == BodyOpen \o <<" ","a","\n","\n","b"," ">> \o BodyClose
PageOneLine == BodyOpen \o <<"c">> \o BodyClose
PageNoBody == <<"<","p",">","c","<","/","p",">">>
PageErrorText == ErrorPrefix \o <<" ","d","o","w","n">>
Pages == {PageTwoLines, PageOneLine, PageNoBody, PageErrorText}

\* what requests.get followed by raise_for_status can do in scrape_website
ScrapeOutcomes ==
    {[ok |-> TRUE, text |-> pg] : pg \in Pages}
    \cup {[ok |-> FALSE, text |-> <<"4","0","4">>]}

\* scrape.py lines 4-25
scrape_website(u, outcome) ==
    IF outcome.ok THEN outcome.text ELSE ScrapeErrorMsg(outcome.text)

\* scrape.py lines 27-30: str(soup.body), or "" without a body element
extract_body_content(html) ==
    LET starts == {a \in 1..(Len(html) - Len(BodyOpen) + 1) :
                       SubSeq(html, a, a + Len(BodyOpen) - 1) = BodyOpen}
    IN  IF starts = {} THEN <<>>
        ELSE SubSeq(html, CHOOSE a \in starts : \A b \in starts : a <= b,
                    Len(html))

\* soup.get_text: the characters outside the tags
RECURSIVE GetTextFrom(_, _)
GetTextFrom(s, intag) ==
    IF s = <<>> THEN <<>>
    ELSE IF Head(s) = "<" THEN GetTextFrom(Tail(s), TRUE)
    ELSE IF Head(s) = ">" /\ intag THEN GetTextFrom(Tail(s), FALSE)
    ELSE IF intag THEN GetTextFrom(Tail(s), TRUE)
    ELSE <<Head(s)>> \o GetTextFrom(Tail(s), FALSE)

\* scrape.py lines 33-44
clean_body_content(body) ==
    JoinStr(<<"\n">>, StrippedLines(GetTextFrom(body, FALSE)))

NoState == [k \in {} |-> <<>>]

\* st.session_state.dom_content = cleaned_content
SetDomContent(ss, cleaned) == [k \in {"dom_content"} |-> cleaned]

BasicScrapeStoresResult(ss, u, res) ==
    IF u = "" THEN ss
    ELSE SetDomContent(ss, clean_body_content(extract_body_content(res)))

\* main.py lines 96-111: st.session_state after a "Scrape Site" click
BasicScrapeState(ss, u, res) ==
    IF u = "" THEN ss
    ELSE IF StartsWith(ErrorPrefix, res) THEN ss
    ELSE SetDomContent(ss, clean_body_content(extract_body_content(res)))

\* main.py lines 96-118: the run returns before the parse section exactly
\* when the click is rejected
BasicScrapeReturnsEarly(u, res) == u = "" \/ StartsWith(ErrorPrefix, res)

\* the provider ids the select box of line 202 maps to (lines 211-217)
SelectableProviders ==
    {Id_scraperapi, Id_zenrows, Id_scrapingbee, Id_scrapingdog}

\* the keys typed into a key field, and those found in the environment
TypedKeys == {<<>>, <<" ">>, <<"k">>}
EnvKeys == {<<>>, <<"e">>}

\* api_key.strip() or get_api_key_from_env(provider_id)
ProviderKey(typed, env) == IF Strip(typed) # <<>> THEN Strip(typed) ELSE env

\* main.py lines 206-240: st.session_state after a "Run Advanced Scrape"
\* click
AdvancedScrapeState(ss, u, prov, key, outcome) ==
    IF u = "" THEN ss
    ELSE IF key = <<>> THEN ss
    ELSE LET r == generic_fetch(u, PyStr(prov), PyStr(key), "absent", outcome)
         IN  IF r.result.kind = "raise" THEN ss
             ELSE SetDomContent(ss,
                      clean_body_content(extract_body_content(r.result.value)))

AdvancedScrapeReturnsEarly(u, key) == u = "" \/ key = <<>>

NotCalled == [called |-> FALSE, chunks |-> <<>>]

SessionIdle ==
    /\ session_state = NoState /\ page = "none" /\ parse_rendered = FALSE
    /\ parse_input = NotCalled
    /\ last_ok_html = [has |-> FALSE, html |-> <<>>]
    /\ last_run = [kind |-> "none", failed |-> FALSE, before |-> NoState,
                   failed_since_ok |-> FALSE]

\* a new session showing one of the two scraper pages
SessionStart ==
    /\ session_state = NoState /\ page \in {"basic", "advanced"}
    /\ parse_rendered = FALSE /\ parse_input = NotCalled
    /\ last_ok_html = [has |-> FALSE, html |-> <<>>]
    /\ last_run = [kind |-> "none", failed |-> FALSE, before |-> NoState,
                   failed_since_ok |-> FALSE]

\* a script run with no button pressed (a menu choice or an edited field):
\* the page is drawn, the parse section with it when dom_content is stored
Render ==
    /\ page \in {"basic", "advanced"}
    /\ \E p \in {"basic", "advanced"} : page' = p
    /\ parse_rendered' = ("dom_content" \in DOMAIN session_state)
    /\ last_run' = [last_run EXCEPT !.kind = "render", !.failed = FALSE,
                                    !.before = session_state]
    /\ UNCHANGED <<session_state, parse_input, last_ok_html, splitVars,
                   parseVars, fetchVars, tableVars>>

\* main.py lines 91-118: a click on "Scrape Site"
BasicScrape ==
    /\ page = "basic"
    /\ \E u \in Urls \cup {""} : \E outcome \in ScrapeOutcomes :
         LET res == scrape_website(u, outcome)
             failed == u = "" \/ ~outcome.ok \/ StartsWith(ErrorPrefix, res)
         IN  /\ session_state' = BasicScrapeState(session_state, u, res)
             /\ parse_rendered' =
                    /\ ~BasicScrapeReturnsEarly(u, res)
                    /\ "dom_content" \in DOMAIN session_state'
             /\ last_ok_html' = IF failed THEN last_ok_html
                                ELSE [has |-> TRUE, html |-> res]
             /\ last_run' = [kind |-> "scrape", failed |-> failed,
                             before |-> session_state,
                             failed_since_ok |-> failed]
    /\ UNCHANGED <<page, parse_input, splitVars, parseVars, fetchVars,
                   tableVars>>

\* main.py lines 196-243: a click on "Run Advanced Scrape"
AdvancedScrape ==
    /\ page = "advanced"
    /\ \E u \in Urls \cup {""} : \E prov \in SelectableProviders :
       \E typed \in TypedKeys : \E env \in EnvKeys :
       \E outcome \in GetOutcomes :
         LET key == ProviderKey(typed, env)
             failed == u = "" \/ key = <<>> \/ outcome # "ok"
         IN  /\ session_state' =
                    AdvancedScrapeState(session_state, u, prov, key, outcome)
             /\ parse_rendered' =
                    /\ ~AdvancedScrapeReturnsEarly(u, key)
                    /\ "dom_content" \in DOMAIN session_state'
             /\ last_ok_html' = IF failed THEN last_ok_html
                                ELSE [has |-> TRUE, html |-> Html]
             /\ last_run' = [kind |-> "scrape", failed |-> failed,
                             before |-> session_state,
                             failed_since_ok |-> failed]
    /\ UNCHANGED <<page, parse_input, splitVars, parseVars, fetchVars,
                   tableVars>>

\* the description and the LLM key typed next to the parse button
Descriptions == {<<>>, <<" ">>, <<"x">>}

\* lines 147-158 and 271-282: the chunks given to parse_with_llm, if the
\* click gets that far
ParseClick(ss, description, key) ==
    IF Strip(description) = <<>> THEN NotCalled
    ELSE IF Strip(key) = <<>> THEN NotCalled
    ELSE [called |-> TRUE,
          chunks |-> split_dom_content(ss["dom_content"], DefaultMaxLength)]

\* main.py lines 118-165: a click on "Parse Content"
BasicParse ==
    /\ page = "basic" /\ parse_rendered
    /\ \E description \in Descriptions : \E key \in TypedKeys :
         parse_input' = ParseClick(session_state, description, key)
    /\ last_run' = [last_run EXCEPT !.kind = "parse", !.failed = FALSE,
                                    !.before = session_state]
    /\ UNCHANGED <<session_state, page, parse_rendered, last_ok_html,
                   splitVars, parseVars, fetchVars, tableVars>>

\* main.py lines 243-289: a click on "Parse Advanced Content"
AdvancedParse ==
    /\ page = "advanced" /\ parse_rendered
    /\ \E description \in Descriptions : \E key \in TypedKeys :
         parse_input' = ParseClick(session_state, description, key)
    /\ last_run' = [last_run EXCEPT !.kind = "parse", !.failed = FALSE,
                                    !.before = session_state]
    /\ UNCHANGED <<session_state, page, parse_rendered, last_ok_html,
                   splitVars, parseVars, fetchVars, tableVars>>

-----------------------------------------------------------------------------
(* Specifications *)

SplitInit == SplitInputs /\ ParseIdle /\ FetchIdle /\ TableIdle /\ SessionIdle
SplitNext == SplitCall
SplitSpec == SplitInit /\ [][SplitNext]_vars

ParseNext == ParseStart \/ SkipChunk \/ ProcessChunk \/ Finish
ParseInit == ParseInputs /\ SplitIdle /\ FetchIdle /\ TableIdle /\ SessionIdle
ParseSpec == ParseInit /\ [][ParseNext]_vars

FetchInit == FetchInputs /\ SplitIdle /\ ParseIdle /\ TableIdle /\ SessionIdle
FetchNext == GenericFetch
FetchSpec == FetchInit /\ [][FetchNext]_vars

TableInit == TableInputs /\ SplitIdle /\ ParseIdle /\ FetchIdle /\ SessionIdle
TableNext == TryToDataframe
TableSpec == TableInit /\ [][TableNext]_vars

SessionInit ==
    SessionStart /\ SplitIdle /\ ParseIdle /\ FetchIdle /\ TableIdle
SessionNext ==
    Render \/ BasicScrape \/ AdvancedScrape \/ BasicParse \/ AdvancedParse
SessionSpec == SessionInit /\ [][SessionNext]_vars

-----------------------------------------------------------------------------
(* Properties of split_dom_content *)

\* C1: when split_dom_content has returned, its result is the fixed-stride
\* partition of the document: ceil(len(D)/L) chunks, every chunk but the
\* last of length exactly L, the last chunk non-empty, and the chunks
\* concatenated in order give back D.
C1_FixedStridePartition ==
    split_pc = "done" =>
        LET n == Len(split_result)
        IN  /\ n = (Len(dom_content) + max_length - 1) \div max_length
            /\ \A k \in 1..(n - 1) : Len(split_result[k]) = max_length
            /\ n > 0 => split_result[n] # <<>>
            /\ JoinStr(<<>>, split_result) = dom_content

C1_Witness ==
    /\ split_pc = "done"
    /\ Len(split_result) >= 2
    /\ Len(split_result[Len(split_result)]) < max_length

-----------------------------------------------------------------------------
(* Properties of parse_with_llm *)

\* a chunk made of whitespace characters only (the empty chunk included)
WhitespaceOnly(chunk) ==
    \A n \in 1..Len(chunk) : chunk[n] \in {" ", "\t", "\n"}

\* the call went past the guard and the provider configuration
Entered ==
    /\ pc \in {"loop", "done"}
    /\ \E k \in 1..Len(dom_chunks) : ~WhitespaceOnly(dom_chunks[k])
    /\ provider \in {"gemini", "groq", "openai"}

\* positions of final_output that came from chunk index idx
FromChunk(idx) == {j \in 1..Len(origin) : origin[j] = idx}

Ok200(r) == r.kind = "http" /\ r.status = 200

\* a 200 response with the provider's envelope around a string
WellFormed(r) == Ok200(r) /\ r.json /\ r.listed /\ r.value.t = "str"

\* C2: a call with an empty chunk list, or with only whitespace chunks,
\* returns the empty-content error string and has issued no request,
\* whatever the provider.
C2_EmptyInputGuard ==
    (pc = "done" /\ \A k \in 1..Len(dom_chunks) : WhitespaceOnly(dom_chunks[k])) =>
        result = Return(EmptyContentMsg) /\ requests = <<>>

C2_Witness ==
    /\ pc = "done" /\ provider \notin ValidProviders
    /\ Len(dom_chunks) >= 2
    /\ \A k \in 1..Len(dom_chunks) : WhitespaceOnly(dom_chunks[k])
    /\ \E k \in 1..Len(dom_chunks) : dom_chunks[k] # <<>>
    /\ result = Return(EmptyContentMsg)

\* the request for a chunk failed: the request raised, the status was not
\* 200, or the 200 body was not the provider's envelope around a string
Failed(r) == r.kind = "exception" \/ (r.kind = "http" /\ ~WellFormed(r))

\* C3: once the call is over, every chunk whose request failed has exactly
\* one string recorded, every later non-whitespace chunk was still sent,
\* and the call returned a string that contains every recorded string.
C3_FailureIsolation ==
    (pc = "done" /\ Entered) =>
        \A k \in 1..Len(responses) :
            Failed(responses[k]) =>
                /\ Cardinality(FromChunk(k - 1)) = 1
                /\ \A m \in (k + 1)..Len(dom_chunks) :
                       ~WhitespaceOnly(dom_chunks[m]) =>
                           \E q \in 1..Len(requests) : requests[q] = m - 1
                /\ result.kind = "return"
                /\ \A j \in 1..Len(final_output) :
                       Contains(final_output[j].v, result.value)

\* C4: for every chunk answered with status 200 and a well-formed envelope,
\* nothing is recorded when the model text contains NO_DATA, and otherwise
\* exactly the model text is recorded, unchanged.
C4_SentinelFilter ==
    \A k \in 1..Len(responses) :
        WellFormed(responses[k]) =>
            IF Contains(NO_DATA, responses[k].value.v)
            THEN FromChunk(k - 1) = {}
            ELSE /\ Cardinality(FromChunk(k - 1)) = 1
                 /\ \A j \in FromChunk(k - 1) :
                        final_output[j] = responses[k].value

C4_Witness ==
    /\ pc = "done"
    /\ \E k, m \in 1..Len(responses) :
         /\ WellFormed(responses[k]) /\ WellFormed(responses[m])
         /\ responses[k].value.v # NO_DATA
         /\ Contains(NO_DATA, responses[k].value.v)
         /\ responses[m].value.v = <<"f","o","o">>
         /\ FromChunk(k - 1) = {} /\ FromChunk(m - 1) # {}

\* C5: parse_with_llm never returns the empty string, and returns the
\* no-matching-data message when nothing was retained.
C5_NeverEmpty ==
    (pc = "done" /\ result.kind = "return") =>
        /\ result.value # <<>>
        /\ (Entered /\ final_output = <<>>) => result.value = NoMatchMsg

\* C6: when at least one string was retained, the returned value is the
\* retained strings joined by newlines; they appear in increasing chunk
\* order, at most one per chunk, and none comes from a whitespace-only
\* chunk or from a chunk answered with the sentinel.
C6_OrderedJoin ==
    (pc = "done" /\ final_output # <<>> /\ result.kind = "return") =>
        /\ result.value =
               JoinStr(<<"\n">>, [j \in 1..Len(final_output) |-> final_output[j].v])
        /\ Len(origin) = Len(final_output)
        /\ \A a, b \in 1..Len(origin) : a < b => origin[a] < origin[b]
        /\ \A j \in 1..Len(origin) :
               LET k == origin[j] + 1
               IN  /\ ~WhitespaceOnly(dom_chunks[k])
                   /\ ~(WellFormed(responses[k])
                          /\ Contains(NO_DATA, responses[k].value.v))

C6_Witness ==
    /\ pc = "done" /\ result.kind = "return"
    /\ Len(dom_chunks) = 3 /\ Len(final_output) = 2
    /\ origin = <<0, 2>>
    /\ final_output[1].v = <<"f","o","o">>
    /\ responses[3].status = 500

\* the failures that leave an error string: a non-200 response, a Gemini
\* response with no candidates, and an exception caught by the try block
ErrorRecorded(p, r) ==
    \/ r.kind = "exception"
    \/ r.kind = "http" /\ r.status # 200
    \/ Ok200(r) /\ ~r.json
    \/ Ok200(r) /\ r.json /\ ~r.listed
    \/ Ok200(r) /\ r.json /\ r.listed /\ r.value.t = "NoneType"

\* C9: every error string in final_output carries the decimal index of the
\* chunk whose request failed.
C9_ErrorCarriesIndex ==
    \A j \in 1..Len(final_output) :
        ErrorRecorded(provider, responses[origin[j] + 1]) =>
            Contains(IntToStr(origin[j]), final_output[j].v)

\* the indices below n of the chunks that are not whitespace-only
NonBlankBelow(n) ==
    SelectSeq([k \in 1..n |-> k - 1], LAMBDA x : ~WhitespaceOnly(dom_chunks[x + 1]))

\* C10: in a call that passed the guard with a valid provider, the requests
\* sent so far are exactly the non-whitespace chunks visited so far, one
\* each and in increasing index order; a whitespace-only chunk leaves no
\* string; each chunk is visited once, and the call ends with every chunk
\* visited.
C10_SequentialOnce ==
    Entered =>
        /\ requests = NonBlankBelow(i)
        /\ Len(responses) = i /\ i <= Len(dom_chunks)
        /\ \A j \in 1..Len(origin) : ~WhitespaceOnly(dom_chunks[origin[j] + 1])
        /\ pc = "done" => i = Len(dom_chunks)

C10_Witness ==
    /\ pc = "done" /\ Entered
    /\ Len(dom_chunks) = 3 /\ WhitespaceOnly(dom_chunks[2])
    /\ requests = <<0, 2>>
    /\ responses[1].status = 500 /\ responses[3].kind = "exception"

-----------------------------------------------------------------------------
(* Properties of generic_fetch *)

SupportedIds == {Id_scraperapi, Id_scrapingbee, Id_scrapingdog, Id_zenrows}

\* C7: when the api key is empty or absent, or the provider is absent,
\* "none" or "basic", or the provider id (letter case aside, as the ids
\* are compared lower-cased) is not one of the four supported ids,
\* generic_fetch sends no HTTP request and raises AdvancedScraperError.
C7_FailsWithoutRequest ==
    (/\ fetch_pc = "done"
     /\ \/ api_key = PyNone \/ api_key = PyStr(<<>>)
        \/ fetch_provider = PyNone
        \/ Lower(fetch_provider.v) \notin SupportedIds) =>
        /\ http_requests = <<>>
        /\ fetch_result.kind = "raise"
        /\ fetch_result.value = "AdvancedScraperError"

C7_Witness ==
    /\ fetch_pc = "done"
    /\ fetch_provider = PyStr(Id_scraperapi) /\ api_key = PyStr(<<>>)
    /\ http_requests = <<>> /\ fetch_result.kind = "raise"

-----------------------------------------------------------------------------
(* Properties of try_to_dataframe *)

\* C8: try_to_dataframe always returns a table and never raises, whatever
\* pd.read_html and pd.read_csv do; for a text with no non-empty line the
\* table has zero rows.
C8_Total ==
    table_pc = "done" =>
        /\ table_result.kind = "return"
        /\ (\A n \in 1..Len(parsed_text) : parsed_text[n] \in {" ", "\t", "\n"})
               => /\ table_result.value.source = "code"
                  /\ table_result.value.rows = <<>>

C8_Witness ==
    /\ table_pc = "done"
    /\ Contains(TableTag, parsed_text) /\ read_html_outcome = "raise"
    /\ StrippedLines(parsed_text) # <<>>
    /\ Contains(<<",">>, StrippedLines(parsed_text)[1])
    /\ "," \in read_csv_raises
    /\ table_result.kind = "return"
    /\ table_result.value.source = "code"

\* the first non-empty trimmed line, and the positions in Separators of
\* the separators that occur in it
HeaderLine == StrippedLines(parsed_text)[1]
InHeader == {n \in 1..Len(Separators) : Contains(<<Separators[n]>>, HeaderLine)}
FirstInHeader == CHOOSE n \in InHeader : \A m \in InHeader : n <= m

\* the markup-table step gave no table and there is a non-empty line
ReachedDelimited ==
    /\ table_pc = "done" /\ table_result.kind = "return"
    /\ table_result.value.source # "read_html"
    /\ StrippedLines(parsed_text) # <<>>

\* C11: in the delimited-text step the only delimiter used is the first of
\* tab, pipe, comma, semicolon that occurs in the first non-empty line; if
\* parsing with it raises, no other delimiter is tried and the table is
\* built by the whitespace-column step or the single-column fallback.
C11_FirstDelimiterOnly ==
    ReachedDelimited =>
        /\ table_result.value.source = "read_csv" =>
               /\ InHeader # {}
               /\ table_result.value.sep = Separators[FirstInHeader]
        /\ (InHeader # {} /\ Separators[FirstInHeader] \notin read_csv_raises) =>
               /\ table_result.value.source = "read_csv"
               /\ table_result.value.sep = Separators[FirstInHeader]
        /\ (InHeader # {} /\ Separators[FirstInHeader] \in read_csv_raises) =>
               table_result.value.source = "code"

\* neither pd.read_html nor pd.read_csv gave a table for a text that has a
\* non-empty line: read_html raised or returned nothing, and read_csv
\* raised for every separator that occurs in the first line
NoLibraryTable ==
    /\ table_pc = "done"
    /\ StrippedLines(parsed_text) # <<>>
    /\ ~Contains(TableTag, parsed_text) \/ read_html_outcome # "tables"
    /\ \A n \in InHeader : Separators[n] \in read_csv_raises

\* C12: when neither the markup-table nor the delimited-text step gives a
\* table, then with at least two non-empty lines that all split on
\* whitespace into the same number (more than one) of fields the table has
\* the first line's fields as columns and one row per remaining line;
\* otherwise it has the single column "text" and one row per non-empty
\* trimmed line, in input order.
C12_WhitespaceOrText ==
    NoLibraryTable =>
        LET lines == StrippedLines(parsed_text)
            fields == [n \in 1..Len(lines) |-> SplitWs(lines[n])]
            df == table_result.value
        IN  /\ table_result.kind = "return"
            /\ df.source = "code"
            /\ IF /\ Len(lines) >= 2
                  /\ \A n \in 1..Len(lines) : Len(fields[n]) = Len(fields[1])
                  /\ Len(fields[1]) > 1
               THEN /\ df.columns = fields[1]
                    /\ Len(df.rows) = Len(lines) - 1
                    /\ \A n \in 1..Len(df.rows) : df.rows[n] = fields[n + 1]
               ELSE /\ df.columns = <<<<"t","e","x","t">>>>
                    /\ Len(df.rows) = Len(lines)
                    /\ \A n \in 1..Len(lines) : df.rows[n] = <<lines[n]>>

C12_Witness ==
    /\ NoLibraryTable
    /\ Len(StrippedLines(parsed_text)) = 3
    /\ table_result.value.columns = <<<<"a">>, <<"b">>>>
    /\ table_result.value.rows = <<<<<<"c">>, <<"d">>>>, <<<<"a">>, <<"b">>>>>>

-----------------------------------------------------------------------------
(* Properties of a scraping session *)

\* the content a scraped document is stored as
Cleaned(html) == clean_body_content(extract_body_content(html))

====
